---- MODULE Spec2Model ----
(***************************************************************************)
(* Platform ticket booking (src/app.py): the JSON record stores, the       *)
(* booking / payment / ticket services and the routes that drive them.     *)
(* Time is counted in hours; every request runs to completion before the   *)
(* next one starts (one action per request), except under SpecThreads,     *)
(* where requests of different users run in threads that interleave at     *)
(* their file loads and saves.  Registration, login and the capacity       *)
(* update of /admin/platforms are left out: every user of Users is logged  *)
(* in, and a platform keeps the capacity it was created with.              *)
(***************************************************************************)
EXTENDS Integers, Sequences, FiniteSets, TLC

VARIABLES platforms, bookings, tickets, payments, session, now, resp, proc

vars == <<platforms, bookings, tickets, payments, session, now, resp, proc>>

(* ------------------------------ bounds -------------------------------- *)
NumUsers == 2
MaxPlatform == 1
MaxCapacity == 1
MaxBookings == 2
MaxPayments == 2
MaxTime == 2
MaxSkew == 1
MaxDuration == 1
\* Under SpecThreads: a create_booking (process_payment) call starts while
\* fewer bookings or tickets (payments) than this are stored.
MaxThreadBookings == 1
MaxThreadPayments == 1

Users == 1..NumUsers
PlatformNumbers == 1..MaxPlatform
Capacities == 1..MaxCapacity
\* int(request.form.get("duration")): the posted duration is not validated
\* against the list the form offers.
Durations == 1..MaxDuration
\* int(request.form.get("platformNumber")): any number can be posted, also
\* one that neither the seed nor the admin has created.
PostedPlatforms == 1..MaxPlatform + 2

(* ------------------------- program constants -------------------------- *)
rate_per_hour == 10
SeedPlatforms ==
  << [platformNumber |-> 1, capacity |-> 200],
     [platformNumber |-> 2, capacity |-> 150] >>

(* ----------------------------- helpers -------------------------------- *)
MaxOf(S) == CHOOSE x \in S : \A y \in S : y <= x

\* next((x for x in data if x.get(key) == v), None): index of the first
\* match, 0 for None.
FirstIndex(data, key, v) ==
  LET hits == { i \in DOMAIN data : data[i][key] = v }
  IN IF hits = {} THEN 0 ELSE CHOOSE i \in hits : \A j \in hits : i <= j

\* {x.get(key): x for x in data}.get(v): a later item overwrites an earlier
\* one with the same key; 0 for None.
LastIndex(data, key, v) ==
  LET hits == { i \in DOMAIN data : data[i][key] = v }
  IN IF hits = {} THEN 0 ELSE CHOOSE i \in hits : \A j \in hits : j <= i

\* datetime.isoformat() / datetime.fromisoformat(): a timestamp is stored as
\* text; parsing text that is not an ISO timestamp raises ValueError, and
\* parsing the None of a missing key raises TypeError.
isoformat(t) == [fmt |-> "iso", val |-> t]
fromisoformat(s) ==
  IF s.fmt = "iso" THEN [raised |-> FALSE, error |-> "none", val |-> s.val]
  ELSE [raised |-> TRUE,
        error |-> IF s.fmt = "none" THEN "TypeError" ELSE "ValueError",
        val |-> 0]
\* What tickets.json holds for an expiryTime that is not a timestamp: some
\* other text, or no expiryTime key at all (ticket.get gives None).
NotATimestamp == [fmt |-> "bad", val |-> 0]
NoTimestamp == [fmt |-> "none", val |-> 0]
\* The exception classes of the try block that `except Exception` catches.
Exception == {"ValueError", "TypeError"}

timedelta(hours) == hours

\* Mutant: the increment is forgotten.
get_next_id_no_increment(data, key_name) ==
  IF data = << >> THEN 1
  ELSE MaxOf({ data[i][key_name] : i \in DOMAIN data })

get_next_id(data, key_name) ==
  IF data = << >> THEN 1
  ELSE MaxOf({ data[i][key_name] : i \in DOMAIN data }) + 1

seed_platforms(pf) == IF pf = << >> THEN SeedPlatforms ELSE pf

(* ------------------------------ services ------------------------------ *)
\* The counting loop of check_platform_availability over bookings[1..k].
RECURSIVE active_count(_, _, _, _)
active_count(bk, tk, platform_number, k) ==
  IF k = 0 THEN 0
  ELSE LET b == bk[k]
           ti == IF b.platformNumber = platform_number /\ b.ticketId # 0
                 THEN FirstIndex(tk, "ticketId", b.ticketId) ELSE 0
       IN active_count(bk, tk, platform_number, k - 1)
          + (IF ti # 0 /\ tk[ti].status = "Active" THEN 1 ELSE 0)

\* Mutant: the platform is full only when the count exceeds the capacity.
check_platform_availability_gt(pf, bk, tk, platform_number) ==
  LET pi == FirstIndex(pf, "platformNumber", platform_number)
  IN IF pi = 0 THEN [allowed |-> FALSE, msg |-> "Platform not found."]
     ELSE IF active_count(bk, tk, platform_number, Len(bk)) > pf[pi].capacity
          THEN [allowed |-> FALSE, msg |-> "Platform is full."]
          ELSE [allowed |-> TRUE, msg |-> "Available"]

\* Mutant: the lookup's None is not rejected, an unknown platform is treated
\* as one without bookings.
check_platform_availability_unknown_ok(pf, bk, tk, platform_number) ==
  LET pi == FirstIndex(pf, "platformNumber", platform_number)
  IN IF pi = 0 THEN [allowed |-> TRUE, msg |-> "Available"]
     ELSE IF active_count(bk, tk, platform_number, Len(bk)) >= pf[pi].capacity
          THEN [allowed |-> FALSE, msg |-> "Platform is full."]
          ELSE [allowed |-> TRUE, msg |-> "Available"]

check_platform_availability(pf, bk, tk, platform_number) ==
  LET pi == FirstIndex(pf, "platformNumber", platform_number)
  IN IF pi = 0 THEN [allowed |-> FALSE, msg |-> "Platform not found."]
     ELSE IF active_count(bk, tk, platform_number, Len(bk)) >= pf[pi].capacity
          THEN [allowed |-> FALSE, msg |-> "Platform is full."]
          ELSE [allowed |-> TRUE, msg |-> "Available"]

\* Mutant: the rate is added to the duration instead of multiplying it.
calculate_amount_added(duration_hours) == rate_per_hour + duration_hours

calculate_amount(duration_hours) == rate_per_hour * duration_hours

\* t0, t1, t2: the three successive datetime.now() readings.
create_booking(bk, tk, user_id, platform_number, selected_duration, t0, t1, t2) ==
  LET booking_id == get_next_id(bk, "bookingId")
      ticket_id == get_next_id(tk, "ticketId")
      ticket == [ticketId |-> ticket_id,
                 issueTime |-> isoformat(t1),
                 expiryTime |-> isoformat(t2 + timedelta(selected_duration)),
                 status |-> "Pending Payment",
                 platformNumber |-> platform_number]
      booking == [bookingId |-> booking_id,
                  userId |-> user_id,
                  platformNumber |-> platform_number,
                  bookingTime |-> isoformat(t0),
                  selectedDuration |-> selected_duration,
                  ticketId |-> ticket_id]
  IN [tickets |-> Append(tk, ticket),
      bookings |-> Append(bk, booking),
      booking |-> booking]

\* Mutant: the expiry comparison is not strict.
update_ticket_state_ge(ticket, t) ==
  IF ticket.status = "Active"
  THEN LET expiry == fromisoformat(ticket.expiryTime)
       IN IF ~expiry.raised /\ t >= expiry.val
          THEN [ticket EXCEPT !.status = "Expired"]
          ELSE ticket
  ELSE ticket

\* Mutant: an overdue ticket moves one step per call (unpaid -> Cancelled,
\* Cancelled -> Expired), so a second call transitions again.
update_ticket_state_stepwise(ticket, t) ==
  LET expiry == fromisoformat(ticket.expiryTime)
      overdue == ~expiry.raised /\ t > expiry.val
  IN IF overdue /\ ticket.status \in {"Active", "Cancelled"}
     THEN [ticket EXCEPT !.status = "Expired"]
     ELSE IF overdue /\ ticket.status = "Pending Payment"
          THEN [ticket EXCEPT !.status = "Cancelled"]
          ELSE ticket

\* Mutant: the handler treats a ticket whose expiry cannot be read as
\* expired.
update_ticket_state_expire_unreadable(ticket, t) ==
  IF ticket.status = "Active"
  THEN LET expiry == fromisoformat(ticket.expiryTime)
       IN IF expiry.raised \/ t > expiry.val
          THEN [ticket EXCEPT !.status = "Expired"]
          ELSE ticket
  ELSE ticket

update_ticket_state(ticket, t) ==
  IF ticket.status = "Active"
  THEN LET expiry == fromisoformat(ticket.expiryTime)
       IN IF ~expiry.raised /\ t > expiry.val
          THEN [ticket EXCEPT !.status = "Expired"]
          ELSE ticket
  ELSE ticket

\* Mutant: the updated ticket is not written back.
save_ticket_lost(tk, ticket) == tk

\* The exception update_ticket_state lets escape to its caller ("none" when
\* it returns): what the try block of lines 188-191 raises and the handler
\* of line 192 does not catch.
update_ticket_state_raises(ticket, t) ==
  IF ticket.status = "Active"
  THEN LET expiry == fromisoformat(ticket.expiryTime)
       IN IF expiry.raised /\ expiry.error \notin Exception
          THEN expiry.error
          ELSE "none"
  ELSE "none"

save_ticket(tk, ticket) ==
  LET idx == FirstIndex(tk, "ticketId", ticket.ticketId)
  IN IF idx = 0 THEN tk ELSE [tk EXCEPT ![idx] = ticket]

\* Mutant: the settlement applies only to a ticket that awaits payment.
process_payment_guarded(pm, tk, bk, booking_id, amount, t, success) ==
  LET payment == [paymentId |-> get_next_id(pm, "paymentId"),
                  bookingId |-> booking_id,
                  amount |-> amount,
                  paymentStatus |-> IF success THEN "SUCCESS" ELSE "FAILED",
                  paymentTime |-> isoformat(t)]
      bi == FirstIndex(bk, "bookingId", booking_id)
      ti == IF bi = 0 THEN 0 ELSE FirstIndex(tk, "ticketId", bk[bi].ticketId)
  IN [payments |-> Append(pm, payment),
      tickets |-> IF ti = 0 THEN tk
                  ELSE IF tk[ti].status # "Pending Payment" THEN tk
                  ELSE save_ticket(tk, [tk[ti] EXCEPT !.status =
                                          IF success THEN "Active" ELSE "Cancelled"]),
      success |-> success,
      payment |-> payment]

\* Mutant: the settlement also sweeps the ticket store for overdue tickets.
process_payment_sweeping(pm, tk, bk, booking_id, amount, t, success) ==
  LET payment == [paymentId |-> get_next_id(pm, "paymentId"),
                  bookingId |-> booking_id,
                  amount |-> amount,
                  paymentStatus |-> IF success THEN "SUCCESS" ELSE "FAILED",
                  paymentTime |-> isoformat(t)]
      bi == FirstIndex(bk, "bookingId", booking_id)
      ti == IF bi = 0 THEN 0 ELSE FirstIndex(tk, "ticketId", bk[bi].ticketId)
      settled == IF ti = 0 THEN tk
                 ELSE save_ticket(tk, [tk[ti] EXCEPT !.status =
                                         IF success THEN "Active" ELSE "Cancelled"])
  IN [payments |-> Append(pm, payment),
      tickets |-> [j \in DOMAIN settled |-> update_ticket_state(settled[j], t)],
      success |-> success,
      payment |-> payment]

\* success: the settlement decision taken at line 221.
process_payment(pm, tk, bk, booking_id, amount, t, success) ==
  LET payment == [paymentId |-> get_next_id(pm, "paymentId"),
                  bookingId |-> booking_id,
                  amount |-> amount,
                  paymentStatus |-> IF success THEN "SUCCESS" ELSE "FAILED",
                  paymentTime |-> isoformat(t)]
      bi == FirstIndex(bk, "bookingId", booking_id)
      ti == IF bi = 0 THEN 0 ELSE FirstIndex(tk, "ticketId", bk[bi].ticketId)
  IN [payments |-> Append(pm, payment),
      tickets |-> IF ti = 0 THEN tk
                  ELSE save_ticket(tk, [tk[ti] EXCEPT !.status =
                                          IF success THEN "Active" ELSE "Cancelled"]),
      success |-> success,
      payment |-> payment]

\* Mutant: the randomised decision of line 220 is switched on.
SuccessOutcomes_random == {TRUE, FALSE}

\* The settlement decisions process_payment can take: line 221 fixes True.
SuccessOutcomes == {TRUE}
\* Both values of the local `success`, to exercise the two branches of
\* lines 223 and 241-244.
AnyOutcome == BOOLEAN

(* ------------------------------ responses ----------------------------- *)
NoShown == << >>
\* What the last request rendered: the tickets a page lists and the time of
\* rendering; a request that answers with a flash message and a redirect
\* lists none.
Render(route, shown) == [route |-> route, shown |-> shown, at |-> now]
Redirect == [route |-> "redirect", shown |-> NoShown, at |-> 0]
\* POST /book answered with the availability check's message.
Refused == [route |-> "refused", shown |-> NoShown, at |-> 0]

(* ------------------------------- state -------------------------------- *)
\* proc[u]: the request user u's browser has in progress.  pc is the place
\* the request has reached ("idle": none in progress; "pay" and "view": the
\* page the browser was redirected to), booking_id and amount are the
\* call's arguments, bookings, tickets and payments the lists the call has
\* loaded, ticket the ticket it is about to save, and booking, payment and
\* success what the last completed call returned (each a list of none or
\* one value).
IdleProc ==
  [pc |-> "idle", booking_id |-> 0, amount |-> 0,
   bookings |-> << >>, tickets |-> << >>, payments |-> << >>,
   ticket |-> << >>, booking |-> << >>, payment |-> << >>, success |-> << >>]

Init ==
  /\ platforms = << >>
  /\ bookings = << >>
  /\ tickets = << >>
  /\ payments = << >>
  /\ session = [u \in Users |-> [current_booking_id |-> 0, current_amount |-> 0]]
  /\ now = 0
  /\ resp = Redirect
  /\ proc = [u \in Users |-> IdleProc]

(* ------------------------------- routes ------------------------------- *)
\* POST /book refused by the availability check.
BookRefused(u, p, d) ==
  LET pf == seed_platforms(platforms)
      chk == check_platform_availability(pf, bookings, tickets, p)
  IN /\ ~chk.allowed
     /\ platforms' = pf
     /\ resp' = Refused
     /\ UNCHANGED <<bookings, tickets, payments, session, now>>

\* Mutant: the session keeps the booking it already carries
\* (session.setdefault instead of an assignment).
BookAdmitted_keeps_session(u, p, d) ==
  LET pf == seed_platforms(platforms)
      chk == check_platform_availability(pf, bookings, tickets, p)
  IN /\ chk.allowed
     /\ Len(bookings) < MaxBookings
     /\ \E t0 \in now..now + MaxSkew : \E t1 \in t0..now + MaxSkew :
        \E t2 \in t1..now + MaxSkew :
          /\ t2 <= MaxTime
          /\ LET r == create_booking(bookings, tickets, u, p, d, t0, t1, t2)
             IN /\ bookings' = r.bookings
                /\ tickets' = r.tickets
                /\ session' = IF session[u].current_booking_id # 0
                              THEN session
                              ELSE [session EXCEPT ![u] =
                                 [current_booking_id |-> r.booking.bookingId,
                                  current_amount |-> calculate_amount(d)]]
                /\ resp' = Redirect
          /\ now' = t2
     /\ platforms' = pf
     /\ UNCHANGED payments

\* POST /book admitted: create_booking, then the session carries the booking.
BookAdmitted(u, p, d) ==
  LET pf == seed_platforms(platforms)
      chk == check_platform_availability(pf, bookings, tickets, p)
  IN /\ chk.allowed
     /\ Len(bookings) < MaxBookings
     /\ \E t0 \in now..now + MaxSkew : \E t1 \in t0..now + MaxSkew :
        \E t2 \in t1..now + MaxSkew :
          /\ t2 <= MaxTime
          /\ LET r == create_booking(bookings, tickets, u, p, d, t0, t1, t2)
             IN /\ bookings' = r.bookings
                /\ tickets' = r.tickets
                /\ session' = [session EXCEPT ![u] =
                                 [current_booking_id |-> r.booking.bookingId,
                                  current_amount |-> calculate_amount(d)]]
                /\ resp' = Redirect
          /\ now' = t2
     /\ platforms' = pf
     /\ UNCHANGED payments

\* POST /pay without a booking in the session.
PayNoBooking(u) ==
  /\ ~(session[u].current_booking_id # 0 /\ session[u].current_amount # 0)
  /\ resp' = Redirect
  /\ UNCHANGED <<platforms, bookings, tickets, payments, session, now>>

\* POST /pay: process_payment for the session's booking.
Pay(u, outcomes) ==
  /\ session[u].current_booking_id # 0 /\ session[u].current_amount # 0
  /\ Len(payments) < MaxPayments
  /\ \E success \in outcomes :
       LET r == process_payment(payments, tickets, bookings,
                                session[u].current_booking_id,
                                session[u].current_amount, now, success)
       IN /\ payments' = r.payments
          /\ tickets' = r.tickets
          /\ resp' = Redirect
  /\ UNCHANGED <<platforms, bookings, session, now>>

\* The ticket fields a template renders.
Shown(t) == [ticketId |-> t.ticketId, status |-> t.status,
             expiryTime |-> t.expiryTime]

\* GET /ticket/<booking_id> for a booking that is missing or someone else's.
TicketDetailsNotFound(u, booking_id) ==
  LET bi == FirstIndex(bookings, "bookingId", booking_id)
  IN /\ IF bi = 0 THEN TRUE ELSE bookings[bi].userId # u
     /\ resp' = Redirect
     /\ UNCHANGED <<platforms, bookings, tickets, payments, session, now>>

\* GET /ticket/<booking_id>: refresh the ticket, save it, render it.
TicketDetails(u, booking_id) ==
  LET bi == FirstIndex(bookings, "bookingId", booking_id)
  IN /\ bi # 0 /\ bookings[bi].userId = u
     /\ LET ti == FirstIndex(tickets, "ticketId", bookings[bi].ticketId)
        IN IF ti = 0
           THEN /\ resp' = Render("ticket", NoShown)
                /\ UNCHANGED tickets
           ELSE LET ticket == update_ticket_state(tickets[ti], now)
                IN /\ tickets' = save_ticket(tickets, ticket)
                   /\ resp' = Render("ticket", <<Shown(ticket)>>)
     /\ UNCHANGED <<platforms, bookings, payments, session, now>>

\* b["ticket"] = ticket_map.get(b.get("ticketId")) for each listed booking.
RECURSIVE AttachTickets(_, _)
AttachTickets(bk, tk) ==
  IF bk = << >> THEN << >>
  ELSE LET ti == LastIndex(tk, "ticketId", Head(bk).ticketId)
           rest == AttachTickets(Tail(bk), tk)
       IN IF ti # 0 THEN <<Shown(tk[ti])>> \o rest ELSE rest

\* Mutant: the page's filtered list is written back to the booking store.
History_saving(u) ==
  LET user_bookings == SelectSeq(bookings, LAMBDA b : b.userId = u)
  IN /\ resp' = Render("history", AttachTickets(user_bookings, tickets))
     /\ bookings' = user_bookings
     /\ UNCHANGED <<platforms, tickets, payments, session, now>>

\* GET /history.
History(u) ==
  LET user_bookings == SelectSeq(bookings, LAMBDA b : b.userId = u)
  IN /\ resp' = Render("history", AttachTickets(user_bookings, tickets))
     /\ UNCHANGED <<platforms, bookings, tickets, payments, session, now>>

\* GET /admin/bookings.
AdminBookings ==
  /\ resp' = Render("admin_bookings", AttachTickets(bookings, tickets))
  /\ UNCHANGED <<platforms, bookings, tickets, payments, session, now>>

\* POST /admin/platforms, action=add.
AdminAddPlatform(platform_number, capacity) ==
  /\ IF FirstIndex(platforms, "platformNumber", platform_number) # 0
     THEN /\ resp' = Redirect
          /\ UNCHANGED platforms
     ELSE /\ platforms' = Append(platforms, [platformNumber |-> platform_number,
                                             capacity |-> capacity])
          /\ resp' = Redirect
  /\ UNCHANGED <<bookings, tickets, payments, session, now>>

\* The wall clock advances between requests.
Tick ==
  /\ now < MaxTime
  /\ now' = now + 1
  /\ UNCHANGED <<platforms, bookings, tickets, payments, session, resp>>

BookingIds == 1..MaxBookings + 1

\* Every request runs to completion: none is ever in progress.
NextWith(outcomes) ==
  \/ \E u \in Users, p \in PostedPlatforms, d \in Durations :
       BookRefused(u, p, d) /\ UNCHANGED proc
  \/ \E u \in Users, p \in PostedPlatforms, d \in Durations :
       BookAdmitted(u, p, d) /\ UNCHANGED proc
  \/ \E u \in Users : PayNoBooking(u) /\ UNCHANGED proc
  \/ \E u \in Users : Pay(u, outcomes) /\ UNCHANGED proc
  \/ \E u \in Users, b \in BookingIds :
       TicketDetailsNotFound(u, b) /\ UNCHANGED proc
  \/ \E u \in Users, b \in BookingIds :
       TicketDetails(u, b) /\ UNCHANGED proc
  \/ \E u \in Users : History(u) /\ UNCHANGED proc
  \/ AdminBookings /\ UNCHANGED proc
  \/ \E p \in PlatformNumbers, c \in Capacities :
       AdminAddPlatform(p, c) /\ UNCHANGED proc
  \/ Tick /\ UNCHANGED proc

Next == NextWith(SuccessOutcomes)
Spec == Init /\ [][Next]_vars

\* The same program with the settlement decision of line 220.
NextAnyOutcome == NextWith(AnyOutcome)
SpecAnyOutcome == Init /\ [][NextAnyOutcome]_vars

(* ----------------------------- normal flow ---------------------------- *)
\* Every browser follows the redirects: /book until a booking is admitted
\* (line 393 redirects to /pay), one POST /pay (line 428 redirects a success
\* to the ticket page, line 431 a failure back to /book), the ticket page of
\* the session's booking, and then /book again.
FlowBookRefused(u, p, d) ==
  /\ proc[u].pc = "idle"
  /\ BookRefused(u, p, d)
  /\ UNCHANGED proc

FlowBookAdmitted(u, p, d) ==
  /\ proc[u].pc = "idle"
  /\ BookAdmitted(u, p, d)
  /\ proc' = [proc EXCEPT ![u].pc = "pay"]

FlowPay(u, outcomes) ==
  /\ proc[u].pc = "pay"
  /\ Pay(u, outcomes)
  /\ proc' = [proc EXCEPT ![u].pc =
                IF payments'[Len(payments')].paymentStatus = "SUCCESS"
                THEN "view" ELSE "idle"]

FlowTicketDetails(u) ==
  /\ proc[u].pc = "view"
  /\ TicketDetails(u, session[u].current_booking_id)
  /\ proc' = [proc EXCEPT ![u].pc = "idle"]

NextNormalFlow ==
  \/ \E u \in Users, p \in PostedPlatforms, d \in Durations :
       FlowBookRefused(u, p, d)
  \/ \E u \in Users, p \in PostedPlatforms, d \in Durations :
       FlowBookAdmitted(u, p, d)
  \/ \E u \in Users : FlowPay(u, AnyOutcome)
  \/ \E u \in Users : FlowTicketDetails(u)
  \/ Tick /\ UNCHANGED proc

SpecNormalFlow == Init /\ [][NextNormalFlow]_vars

(* ------------------------------ threads ------------------------------- *)
\* app.run(debug=True) serves every request in a thread of its own, so the
\* services of two requests interleave.  A step is what a thread does up to
\* and including its next load_json or save_json; only the stores are
\* shared.  Here the services are called directly: create_booking and
\* process_payment with any arguments, ticket_details as the route.  The
\* arguments of create_booking are drawn where they are first used, and the
\* clock readings of one call coincide.
Last(s) == s[Len(s)]
Returned(u, booking, payment) ==
  [IdleProc EXCEPT !.booking = booking, !.payment = payment,
                   !.success = IF payment = << >> THEN proc[u].success
                               ELSE <<payment[1].paymentStatus = "SUCCESS">>]
ThreadFrame == UNCHANGED <<platforms, session, now, resp>>

\* create_booking, line 142.
CB_LoadBookings(u) ==
  /\ proc[u].pc = "idle"
  /\ Len(bookings) < MaxThreadBookings /\ Len(tickets) < MaxThreadBookings
  /\ proc' = [proc EXCEPT ![u].pc = "cb_load_tickets",
                          ![u].bookings = bookings]
  /\ UNCHANGED <<bookings, tickets, payments>> /\ ThreadFrame

\* create_booking, line 143.
CB_LoadTickets(u) ==
  /\ proc[u].pc = "cb_load_tickets"
  /\ proc' = [proc EXCEPT ![u].pc = "cb_save_tickets",
                          ![u].tickets = tickets]
  /\ UNCHANGED <<bookings, tickets, payments>> /\ ThreadFrame

\* create_booking, lines 145-162: both ids, the ticket, its save.
CB_SaveTickets(u, p, d) ==
  /\ proc[u].pc = "cb_save_tickets"
  /\ LET r == create_booking(proc[u].bookings, proc[u].tickets, u, p, d,
                             now, now, now)
     IN /\ tickets' = r.tickets
        /\ proc' = [proc EXCEPT ![u].pc = "cb_save_bookings",
                                ![u].bookings = r.bookings,
                                ![u].tickets = << >>]
  /\ UNCHANGED <<bookings, payments>> /\ ThreadFrame

\* create_booking, lines 164-175: the booking's save and the return.
CB_SaveBookings(u) ==
  /\ proc[u].pc = "cb_save_bookings"
  /\ bookings' = proc[u].bookings
  /\ proc' = [proc EXCEPT ![u] =
                Returned(u, <<Last(proc[u].bookings)>>, proc[u].payment)]
  /\ UNCHANGED <<tickets, payments>> /\ ThreadFrame

\* process_payment, line 211.
PP_LoadPayments(u, booking_id, amount) ==
  /\ proc[u].pc = "idle"
  /\ Len(payments) < MaxThreadPayments
  /\ proc' = [proc EXCEPT ![u].pc = "pp_load_tickets",
                          ![u].booking_id = booking_id,
                          ![u].amount = amount,
                          ![u].payments = payments]
  /\ UNCHANGED <<bookings, tickets, payments>> /\ ThreadFrame

\* process_payment, line 212.
PP_LoadTickets(u) ==
  /\ proc[u].pc = "pp_load_tickets"
  /\ proc' = [proc EXCEPT ![u].pc = "pp_load_bookings",
                          ![u].tickets = tickets]
  /\ UNCHANGED <<bookings, tickets, payments>> /\ ThreadFrame

\* process_payment, line 213.
PP_LoadBookings(u) ==
  /\ proc[u].pc = "pp_load_bookings"
  /\ proc' = [proc EXCEPT ![u].pc = "pp_save_payments",
                          ![u].bookings = bookings]
  /\ UNCHANGED <<bookings, tickets, payments>> /\ ThreadFrame

\* process_payment, lines 215-245: the payment record and its save, the
\* lookups, the ticket's new status; it returns at line 247 when there is
\* no ticket to save.
PP_SavePayments(u, outcomes) ==
  /\ proc[u].pc = "pp_save_payments"
  /\ \E success \in outcomes :
       LET r == process_payment(proc[u].payments, proc[u].tickets,
                                proc[u].bookings, proc[u].booking_id,
                                proc[u].amount, now, success)
           bi == FirstIndex(proc[u].bookings, "bookingId", proc[u].booking_id)
           ti == IF bi = 0 THEN 0
                 ELSE FirstIndex(proc[u].tickets, "ticketId",
                                 proc[u].bookings[bi].ticketId)
       IN /\ payments' = r.payments
          /\ proc' = [proc EXCEPT ![u] =
                        IF ti = 0
                        THEN Returned(u, proc[u].booking, <<r.payment>>)
                        ELSE [proc[u] EXCEPT !.pc = "pp_save_ticket_load",
                                             !.payments = r.payments,
                                             !.tickets = << >>,
                                             !.bookings = << >>,
                                             !.ticket = <<r.tickets[ti]>>]]
  /\ UNCHANGED <<bookings, tickets>> /\ ThreadFrame

\* save_ticket called from process_payment, line 198.
PP_SaveTicketLoad(u) ==
  /\ proc[u].pc = "pp_save_ticket_load"
  /\ proc' = [proc EXCEPT ![u].pc = "pp_save_ticket_save",
                          ![u].tickets = tickets]
  /\ UNCHANGED <<bookings, tickets, payments>> /\ ThreadFrame

\* save_ticket called from process_payment, lines 199-203, and the return
\* of line 247.
PP_SaveTicketSave(u) ==
  /\ proc[u].pc = "pp_save_ticket_save"
  /\ tickets' = save_ticket(proc[u].tickets, proc[u].ticket[1])
  /\ proc' = [proc EXCEPT ![u] =
                Returned(u, proc[u].booking, <<Last(proc[u].payments)>>)]
  /\ UNCHANGED <<bookings, payments>> /\ ThreadFrame

\* ticket_details, line 453.
TD_LoadBookings(u, booking_id) ==
  /\ proc[u].pc = "idle"
  /\ proc' = [proc EXCEPT ![u].pc = "td_load_tickets",
                          ![u].booking_id = booking_id,
                          ![u].bookings = bookings]
  /\ UNCHANGED <<bookings, tickets, payments>> /\ ThreadFrame

\* ticket_details, lines 454-469: the loads of the tickets and (for the
\* page only) of the payments, the lookups and the refresh; the request
\* ends here when the booking is missing or not the user's, or has no
\* ticket.
TD_LoadTickets(u) ==
  /\ proc[u].pc = "td_load_tickets"
  /\ LET bi == FirstIndex(proc[u].bookings, "bookingId", proc[u].booking_id)
         own == IF bi = 0 THEN FALSE ELSE proc[u].bookings[bi].userId = u
         ti == IF own
               THEN FirstIndex(tickets, "ticketId",
                               proc[u].bookings[bi].ticketId)
               ELSE 0
     IN proc' = [proc EXCEPT ![u] =
                   IF ti = 0
                   THEN Returned(u, proc[u].booking, proc[u].payment)
                   ELSE [proc[u] EXCEPT
                           !.pc = "td_save_ticket_load",
                           !.bookings = << >>,
                           !.ticket = <<update_ticket_state(tickets[ti], now)>>]]
  /\ UNCHANGED <<bookings, tickets, payments>> /\ ThreadFrame

\* save_ticket called from ticket_details, line 198.
TD_SaveTicketLoad(u) ==
  /\ proc[u].pc = "td_save_ticket_load"
  /\ proc' = [proc EXCEPT ![u].pc = "td_save_ticket_save",
                          ![u].tickets = tickets]
  /\ UNCHANGED <<bookings, tickets, payments>> /\ ThreadFrame

\* save_ticket called from ticket_details, lines 199-203, and the page.
TD_SaveTicketSave(u) ==
  /\ proc[u].pc = "td_save_ticket_save"
  /\ tickets' = save_ticket(proc[u].tickets, proc[u].ticket[1])
  /\ proc' = [proc EXCEPT ![u] =
                Returned(u, proc[u].booking, proc[u].payment)]
  /\ UNCHANGED <<bookings, payments>> /\ ThreadFrame

NextThreads ==
  \/ \E u \in Users : CB_LoadBookings(u)
  \/ \E u \in Users : CB_LoadTickets(u)
  \/ \E u \in Users, p \in PlatformNumbers, d \in Durations :
       CB_SaveTickets(u, p, d)
  \/ \E u \in Users : CB_SaveBookings(u)
  \/ \E u \in Users, b \in BookingIds, d \in Durations :
       PP_LoadPayments(u, b, calculate_amount(d))
  \/ \E u \in Users : PP_LoadTickets(u)
  \/ \E u \in Users : PP_LoadBookings(u)
  \/ \E u \in Users : PP_SavePayments(u, SuccessOutcomes)
  \/ \E u \in Users : PP_SaveTicketLoad(u)
  \/ \E u \in Users : PP_SaveTicketSave(u)
  \/ \E u \in Users, b \in BookingIds : TD_LoadBookings(u, b)
  \/ \E u \in Users : TD_LoadTickets(u)
  \/ \E u \in Users : TD_SaveTicketLoad(u)
  \/ \E u \in Users : TD_SaveTicketSave(u)
  \/ Tick /\ UNCHANGED proc

SpecThreads == Init /\ [][NextThreads]_vars

(* --------------------------- stored tickets --------------------------- *)
\* tickets.json as the program finds it at start-up: written by an earlier
\* run, or edited by hand.  Every user has one booking with its ticket; the
\* ticket's status and expiryTime are whatever the file holds, an
\* expiryTime that is not a timestamp included.
StoredStatuses == {"Pending Payment", "Active", "Expired", "Cancelled"}
StoredExpiryTimes ==
  { isoformat(t) : t \in Durations } \cup {NotATimestamp, NoTimestamp}
StoredTickets ==
  [Users -> [status : StoredStatuses, expiryTime : StoredExpiryTimes]]

InitStored ==
  /\ platforms = SeedPlatforms
  /\ bookings = [u \in Users |->
                   [bookingId |-> u, userId |-> u, platformNumber |-> 1,
                    bookingTime |-> isoformat(0), selectedDuration |-> 1,
                    ticketId |-> u]]
  /\ \E stored \in StoredTickets :
       tickets = [u \in Users |->
                    [ticketId |-> u, issueTime |-> isoformat(0),
                     expiryTime |-> stored[u].expiryTime,
                     status |-> stored[u].status, platformNumber |-> 1]]
  /\ payments = << >>
  /\ session = [u \in Users |-> [current_booking_id |-> 0, current_amount |-> 0]]
  /\ now = 0
  /\ resp = Redirect
  /\ proc = [u \in Users |-> IdleProc]

NextStored ==
  \/ \E u \in Users, b \in BookingIds :
       TicketDetailsNotFound(u, b) /\ UNCHANGED proc
  \/ \E u \in Users, b \in BookingIds :
       TicketDetails(u, b) /\ UNCHANGED proc
  \/ Tick /\ UNCHANGED proc

SpecStored == InitStored /\ [][NextStored]_vars

(* ======================================================================= *)
(* Properties                                                              *)
(* ======================================================================= *)
TicketIndex(ticket_id) == FirstIndex(tickets, "ticketId", ticket_id)
ExpiryOf(t) == t.expiryTime.val
PaymentsFor(booking_id) ==
  { k \in DOMAIN payments : payments[k].bookingId = booking_id }

\* Tickets with status Active that reference platform p.
ActiveTicketsOn(p) ==
  { i \in DOMAIN tickets :
      tickets[i].status = "Active" /\ tickets[i].platformNumber = p }

\* C1: for every platform, the number of Active tickets that reference it
\* never exceeds its capacity (bookings admitted only after the availability
\* check allowed them, then payments and ticket views).
C1_CapacityNeverExceeded ==
  \A i \in DOMAIN platforms :
    Cardinality(ActiveTicketsOn(platforms[i].platformNumber))
      <= platforms[i].capacity

LegalEdges ==
  { <<"Pending Payment", "Active">>,
    <<"Pending Payment", "Cancelled">>,
    <<"Active", "Expired">> }

\* C2: every change of a persisted ticket's status is Pending Payment ->
\* Active, Pending Payment -> Cancelled or Active -> Expired.
C2_OnlyLegalEdges ==
  [][ \A i \in DOMAIN tickets :
        (i \in DOMAIN tickets' /\ tickets'[i].status # tickets[i].status)
          => <<tickets[i].status, tickets'[i].status>> \in LegalEdges ]_vars

\* C3: once a ticket is Expired or Cancelled its status is never Pending
\* Payment or Active again.
C3_TerminalStaysTerminal ==
  [][ \A i \in DOMAIN tickets :
        (i \in DOMAIN tickets' /\ tickets[i].status \in {"Expired", "Cancelled"})
          => tickets'[i].status \notin {"Pending Payment", "Active"} ]_vars

\* Bookings on platform n whose linked ticket has status Active.
ActiveBookingsOn(n) ==
  { i \in DOMAIN bookings :
      /\ bookings[i].platformNumber = n
      /\ \E j \in DOMAIN tickets :
           /\ tickets[j].ticketId = bookings[i].ticketId
           /\ tickets[j].status = "Active" }

\* C4: check_platform_availability(n) answers "not found" when no platform
\* has number n, otherwise "full" exactly when the bookings on n whose ticket
\* is Active number at least the platform's capacity, and allowed otherwise.
C4_AvailabilityContract ==
  \A n \in 0..MaxPlatform + 2 :
    LET r == check_platform_availability(platforms, bookings, tickets, n)
        known == { i \in DOMAIN platforms : platforms[i].platformNumber = n }
    IN IF known = {}
       THEN r = [allowed |-> FALSE, msg |-> "Platform not found."]
       ELSE \A i \in known :
              IF Cardinality(ActiveBookingsOn(n)) >= platforms[i].capacity
              THEN r = [allowed |-> FALSE, msg |-> "Platform is full."]
              ELSE r = [allowed |-> TRUE, msg |-> "Available"]

\* A platform of capacity 1 whose only booking has been paid successfully is
\* reported full, while an unpaid, a cancelled or an expired ticket elsewhere
\* in the store is not counted.
C4_Witness ==
  \E i \in DOMAIN platforms :
    /\ platforms[i].capacity = 1
    /\ Cardinality(ActiveBookingsOn(platforms[i].platformNumber)) = 1
    /\ \E j \in DOMAIN tickets : tickets[j].status # "Active"
    /\ \E k \in DOMAIN payments : payments[k].paymentStatus = "SUCCESS"
    /\ ~check_platform_availability(platforms, bookings, tickets,
                                    platforms[i].platformNumber).allowed

\* Every booking references an existing ticket and every ticket is
\* referenced by exactly one booking.
OneToOne ==
  /\ \A i \in DOMAIN bookings :
       \E j \in DOMAIN tickets : tickets[j].ticketId = bookings[i].ticketId
  /\ \A j \in DOMAIN tickets :
       Cardinality({ i \in DOMAIN bookings :
                       bookings[i].ticketId = tickets[j].ticketId }) = 1
  /\ \A j, k \in DOMAIN tickets :
       tickets[j].ticketId = tickets[k].ticketId => j = k

\* A step that created a booking added one Pending Payment ticket with a new
\* id and one booking that references it.
AddedOneBooking ==
  /\ Len(tickets') = Len(tickets) + 1
  /\ Len(bookings') = Len(bookings) + 1
  /\ SubSeq(tickets', 1, Len(tickets)) = tickets
  /\ SubSeq(bookings', 1, Len(bookings)) = bookings
  /\ tickets'[Len(tickets')].status = "Pending Payment"
  /\ bookings'[Len(bookings')].ticketId = tickets'[Len(tickets')].ticketId
  /\ \A j \in DOMAIN tickets :
       tickets[j].ticketId # tickets'[Len(tickets')].ticketId
  /\ \A i \in DOMAIN bookings :
       bookings[i].bookingId # bookings'[Len(bookings')].bookingId

\* C5: each create_booking call adds exactly one new Pending Payment ticket
\* and one new booking whose ticketId is that ticket's id, and after every
\* step the booking-to-ticket relation is one-to-one.
C5_OneBookingOneTicket ==
  [][ /\ OneToOne'
      /\ (session' # session \/ bookings' # bookings
            \/ Len(tickets') # Len(tickets))
           => AddedOneBooking ]_vars

C5_Witness ==
  /\ Len(bookings) = 2
  /\ Len(tickets) = 2
  /\ bookings[1].ticketId # bookings[2].ticketId
  /\ OneToOne

\* A step that appended a payment p for an existing booking whose ticket was
\* Pending Payment.
SettledPending(p, j) ==
  /\ payments' = Append(payments, p)
  /\ \E i \in DOMAIN bookings :
       /\ bookings[i].bookingId = p.bookingId
       /\ tickets[j].ticketId = bookings[i].ticketId
  /\ tickets[j].status = "Pending Payment"

\* C6: process_payment for a booking whose ticket is Pending Payment stores
\* that ticket as Active when the settlement succeeded and as Cancelled when
\* it failed, and changes nothing else in the ticket store.
C6_SettlementDrivesTicket ==
  [][ \A j \in DOMAIN tickets :
        LET p == payments'[Len(payments')]
        IN (Len(payments') = Len(payments) + 1 /\ SettledPending(p, j))
             => /\ p.paymentStatus = "SUCCESS" => tickets'[j].status = "Active"
                /\ p.paymentStatus = "FAILED" => tickets'[j].status = "Cancelled"
                /\ p.paymentStatus \in {"SUCCESS", "FAILED"}
                /\ tickets' = [tickets EXCEPT ![j].status = tickets'[j].status]
    ]_vars

\* One booking settled with success and another with failure, each paid once.
C6_Witness ==
  \E a, b \in DOMAIN bookings :
    /\ \E k \in DOMAIN payments :
         /\ PaymentsFor(bookings[a].bookingId) = {k}
         /\ payments[k].paymentStatus = "SUCCESS"
    /\ \E k \in DOMAIN payments :
         /\ PaymentsFor(bookings[b].bookingId) = {k}
         /\ payments[k].paymentStatus = "FAILED"
    /\ tickets[TicketIndex(bookings[a].ticketId)].status = "Active"
    /\ tickets[TicketIndex(bookings[b].ticketId)].status = "Cancelled"

\* The step is a ticket view (GET /ticket/<id>) that rendered a ticket.
ViewedTicketStep ==
  /\ resp'.route = "ticket"
  /\ resp'.shown # NoShown
  /\ resp'.at = now
  /\ now' = now
  /\ payments' = payments
  /\ bookings' = bookings

\* C7: the refresh of a ticket view changes the ticket's status to Expired
\* if and only if it was Active and the current time is strictly greater than
\* its expiryTime; in every other case the ticket is left as it was.
C7_ExpiresIffActiveAndOverdue ==
  [][ ViewedTicketStep =>
        LET j == TicketIndex(resp'.shown[1].ticketId)
            due == tickets[j].status = "Active" /\ now > ExpiryOf(tickets[j])
        IN /\ j # 0
           /\ due => tickets' = [tickets EXCEPT ![j].status = "Expired"]
           /\ ~due => tickets' = tickets
           /\ resp'.shown[1].status = tickets'[j].status ]_vars

\* A ticket view has just expired an overdue ticket while the store also
\* holds a ticket that is not Active.
C7_Witness ==
  /\ resp.route = "ticket"
  /\ resp.at = now
  /\ resp.shown # NoShown
  /\ resp.shown[1].status = "Expired"
  /\ \E j \in DOMAIN tickets :
       tickets[j].status \in {"Pending Payment", "Cancelled"}
       /\ now > ExpiryOf(tickets[j])

\* C8: for every stored ticket and every current time, applying
\* update_ticket_state twice gives the same ticket as applying it once.
C8_RefreshIdempotent ==
  \A j \in DOMAIN tickets : \A t \in 0..MaxTime + 1 :
    update_ticket_state(update_ticket_state(tickets[j], t), t)
      = update_ticket_state(tickets[j], t)

\* An Active ticket past its expiry (the refresh changes it) next to an
\* unpaid ticket past its expiry (the refresh leaves it).
C8_Witness ==
  /\ \E j \in DOMAIN tickets :
       /\ tickets[j].status = "Active"
       /\ now > ExpiryOf(tickets[j])
       /\ update_ticket_state(tickets[j], now).status = "Expired"
  /\ \E j \in DOMAIN tickets :
       /\ tickets[j].status = "Pending Payment"
       /\ now > ExpiryOf(tickets[j])

\* C9: no page that lists tickets (ticket view, history, admin bookings)
\* shows status Active for a ticket whose expiryTime is earlier than the
\* time of rendering.
C9_NoStaleActiveShown ==
  resp.route \in {"ticket", "history", "admin_bookings"} =>
    \A k \in DOMAIN resp.shown :
      ~(resp.shown[k].status = "Active" /\ resp.shown[k].expiryTime.val < resp.at)

\* C10: every recorded payment has status SUCCESS and no ticket is Cancelled.
C10_AlwaysSucceeds ==
  /\ \A k \in DOMAIN payments : payments[k].paymentStatus = "SUCCESS"
  /\ \A j \in DOMAIN tickets : tickets[j].status # "Cancelled"

\* A booking has been paid: the payment is recorded and the ticket is Active.
C10_Witness ==
  \E i \in DOMAIN bookings :
    /\ PaymentsFor(bookings[i].bookingId) # {}
    /\ tickets[TicketIndex(bookings[i].ticketId)].status = "Active"

\* The booking the session of user u carries, 0 when there is none.
SessionBooking(u) ==
  FirstIndex(bookings, "bookingId", session[u].current_booking_id)

\* C11: calculate_amount(d) is 10 * d, so doubling the duration doubles the
\* amount; the amount a session carries to the payment is 10 times the
\* selected duration of its booking.
C11_AmountLinear ==
  /\ \A d \in 1..MaxDuration + 3 :
       /\ calculate_amount(d) = 10 * d
       /\ calculate_amount(2 * d) = 2 * calculate_amount(d)
  /\ \A u \in Users :
       SessionBooking(u) # 0 =>
         session[u].current_amount
           = 10 * bookings[SessionBooking(u)].selectedDuration

\* A session carries the amount of a booking it created.
C11_Witness ==
  \E u \in Users :
    /\ SessionBooking(u) # 0
    /\ bookings[SessionBooking(u)].userId = u
    /\ session[u].current_amount = calculate_amount(
                                     bookings[SessionBooking(u)].selectedDuration)
    /\ session[u].current_amount > 0

\* C12: a successful process_payment for an existing booking stores the
\* linked ticket as Active whatever its status was before the call.
C12_SettlementUnconditional ==
  [][ Len(payments') = Len(payments) + 1 =>
        LET p == payments'[Len(payments')]
            bi == FirstIndex(bookings, "bookingId", p.bookingId)
        IN (bi # 0 /\ p.paymentStatus = "SUCCESS") =>
             LET j == TicketIndex(bookings[bi].ticketId)
             IN /\ j # 0
                /\ tickets' = [tickets EXCEPT ![j].status = "Active"] ]_vars

\* A booking whose first settlement failed (ticket Cancelled) and whose
\* second settlement succeeded: the Cancelled ticket is Active.
C12_Witness ==
  \E i \in DOMAIN bookings : \E k1, k2 \in DOMAIN payments :
    /\ k1 < k2
    /\ PaymentsFor(bookings[i].bookingId) = {k1, k2}
    /\ payments[k1].paymentStatus = "FAILED"
    /\ payments[k2].paymentStatus = "SUCCESS"
    /\ tickets[TicketIndex(bookings[i].ticketId)].status = "Active"

\* Bookings on platform n whose ticket is stored Active although the time is
\* past its expiryTime.
OverdueActiveBookingsOn(n) ==
  { i \in ActiveBookingsOn(n) :
      now > ExpiryOf(tickets[TicketIndex(bookings[i].ticketId)]) }

\* C17: a stored ticket goes from Active to Expired only in a ticket view of
\* that very ticket (not by the clock, a booking, a payment or a history
\* page), and until then an overdue Active ticket keeps counting toward its
\* platform's capacity.
C17_ExpiryOnlyOnView ==
  [][ /\ \A j \in DOMAIN tickets :
           (tickets[j].status = "Active" /\ tickets'[j].status # "Active")
             => /\ ViewedTicketStep
                /\ resp'.shown[1].ticketId = tickets[j].ticketId
                /\ tickets'[j].status = "Expired"
      /\ \A i \in DOMAIN platforms :
           LET n == platforms[i].platformNumber
           IN (OverdueActiveBookingsOn(n) # {}
                 /\ Cardinality(ActiveBookingsOn(n)) >= platforms[i].capacity)
                => ~check_platform_availability(platforms, bookings,
                                                tickets, n).allowed ]_vars

\* The only ticket on a platform of capacity 1 is overdue, still stored
\* Active after a history page was rendered, and the platform is reported
\* full.
C17_Witness ==
  \E i \in DOMAIN platforms :
    LET n == platforms[i].platformNumber
    IN /\ platforms[i].capacity = 1
       /\ OverdueActiveBookingsOn(n) # {}
       /\ resp.route = "history" /\ resp.at = now /\ resp.shown # NoShown
       /\ ~check_platform_availability(platforms, bookings, tickets, n).allowed

\* C18: every stored ticket's expiryTime is its issueTime plus the selected
\* duration of its booking, and no step changes the issueTime or the
\* expiryTime of a stored ticket.
C18_ExpiryIsIssuePlusDuration ==
  [][ /\ \A i \in DOMAIN bookings' : \A j \in DOMAIN tickets' :
           tickets'[j].ticketId = bookings'[i].ticketId
             => tickets'[j].expiryTime.val
                  = tickets'[j].issueTime.val
                    + timedelta(bookings'[i].selectedDuration)
      /\ \A j \in DOMAIN tickets :
           /\ tickets'[j].issueTime = tickets[j].issueTime
           /\ tickets'[j].expiryTime = tickets[j].expiryTime ]_vars

\* Every booking the step created references a platform of the platform
\* store.
CreatedOnKnownPlatform ==
  \A i \in DOMAIN bookings' :
    i \notin DOMAIN bookings =>
      \E k \in DOMAIN platforms' :
        platforms'[k].platformNumber = bookings'[i].platformNumber

\* C19: a POST /book answered with the availability check's refusal creates
\* no booking and no ticket and leaves every store unchanged, and every
\* booking that is created references an existing platform.
C19_RefusalChangesNothing ==
  [][ /\ resp' = Refused =>
           /\ platforms' = platforms
           /\ bookings' = bookings
           /\ tickets' = tickets
           /\ payments' = payments
      /\ CreatedOnKnownPlatform ]_vars

\* C19 as amended: a refused POST /book leaves the booking, ticket and
\* payment stores and the sessions unchanged, and the platform store too
\* unless it was empty, which the request seeds with the default platforms
\* before the check; every created booking references a platform of the
\* store.
C19_RefusalChangesNoBooking ==
  [][ /\ resp' = Refused =>
           /\ platforms' = platforms
                \/ (platforms = << >> /\ platforms' = SeedPlatforms)
           /\ bookings' = bookings
           /\ tickets' = tickets
           /\ payments' = payments
           /\ session' = session
      /\ CreatedOnKnownPlatform ]_vars

\* A booking was refused on a full platform while bookings exist, and both
\* a known and an unknown platform number are refused in this state.
C19_Witness ==
  /\ resp = Refused
  /\ bookings # << >>
  /\ \E i \in DOMAIN platforms :
       check_platform_availability(platforms, bookings, tickets,
                                   platforms[i].platformNumber).msg
         = "Platform is full."
  /\ \E n \in PostedPlatforms :
       check_platform_availability(platforms, bookings, tickets, n).msg
         = "Platform not found."

\* C20: a persisted booking record is never changed or removed; a later
\* create_booking only appends, and settlement, ticket views, history and
\* admin pages leave the booking store alone.
C20_BookingsImmutable ==
  [][ \A i \in DOMAIN bookings :
        /\ i \in DOMAIN bookings'
        /\ bookings'[i] = bookings[i] ]_vars

\* Two bookings exist, the first one's ticket has been settled and has
\* changed state, and a history page has just been rendered.
C20_Witness ==
  /\ Len(bookings) >= 2
  /\ PaymentsFor(bookings[1].bookingId) # {}
  /\ \E j \in DOMAIN tickets :
       /\ tickets[j].ticketId = bookings[1].ticketId
       /\ tickets[j].status \in {"Active", "Expired"}
  /\ resp.route = "history"

\* The SUCCESS payments recorded for a booking.
SuccessPaymentsFor(booking_id) ==
  { k \in PaymentsFor(booking_id) : payments[k].paymentStatus = "SUCCESS" }

\* C13: when every browser follows the flow book, pay, view with the
\* session carrying the booking, no booking has more than one SUCCESS
\* payment.
C13_AtMostOneSuccess ==
  \A i \in DOMAIN bookings :
    Cardinality(SuccessPaymentsFor(bookings[i].bookingId)) <= 1

\* One user has gone through the flow twice: two bookings of theirs are
\* each settled by one SUCCESS payment and the second ticket has been
\* viewed.
C13_Witness ==
  \E u \in Users :
    /\ proc[u].pc = "idle"
    /\ resp.route = "ticket"
    /\ Len(bookings) = 2
    /\ \A i \in DOMAIN bookings :
         /\ bookings[i].userId = u
         /\ Cardinality(SuccessPaymentsFor(bookings[i].bookingId)) = 1

\* Thread u takes the step.
Steps(u) == proc'[u] # proc[u]

\* C14: a process_payment call whose bookingId matches no booking, neither
\* in the list it loaded nor in the store, records nothing: the step that
\* follows its loads leaves the payment and ticket stores unchanged and the
\* call does not return success.
C14_UnknownBookingIsError ==
  [][ \A u \in Users :
        ( /\ proc[u].pc = "pp_save_payments"
          /\ FirstIndex(proc[u].bookings, "bookingId", proc[u].booking_id) = 0
          /\ FirstIndex(bookings, "bookingId", proc[u].booking_id) = 0
          /\ Steps(u) )
        => /\ payments' = payments
           /\ tickets' = tickets
           /\ proc'[u].success # <<TRUE>> ]_vars

\* No two records of a store share an id.
UniqueIds(data, key) ==
  \A i, j \in DOMAIN data : data[i][key] = data[j][key] => i = j

StoresHaveUniqueIds ==
  /\ UniqueIds(bookings, "bookingId")
  /\ UniqueIds(tickets, "ticketId")
  /\ UniqueIds(payments, "paymentId")

\* C15: with create_booking and process_payment calls interleaving at their
\* loads and saves, ids are unique in every store and the booking, its
\* ticket and the payment a completed call returned are still stored.
C15_UniqueIdsNothingLost ==
  /\ StoresHaveUniqueIds
  /\ \A u \in Users :
       /\ proc[u].booking # << >> =>
            /\ \E i \in DOMAIN bookings : bookings[i] = proc[u].booking[1]
            /\ \E j \in DOMAIN tickets :
                 /\ tickets[j].ticketId = proc[u].booking[1].ticketId
                 /\ tickets[j].issueTime = proc[u].booking[1].bookingTime
       /\ proc[u].payment # << >> =>
            \E k \in DOMAIN payments : payments[k] = proc[u].payment[1]

\* C16: the save at the end of a ticket view never brings a stored ticket
\* from Active back to Pending Payment.
C16_ViewKeepsSettlement ==
  [][ \A u \in Users :
        (proc[u].pc = "td_save_ticket_save" /\ Steps(u))
        => \A j \in DOMAIN tickets :
             tickets[j].status = "Active"
               => /\ j \in DOMAIN tickets'
                  /\ tickets'[j].status # "Pending Payment" ]_vars

\* C21: update_ticket_state applied to an Active ticket whose expiryTime
\* cannot be parsed lets no exception escape and returns the ticket as it
\* was, status Active, at every current time; the ticket view that applies
\* it stores and shows the ticket unchanged.
C21_MalformedExpiryStaysActive ==
  [][ ViewedTicketStep =>
        LET j == TicketIndex(resp'.shown[1].ticketId)
        IN /\ j # 0
           /\ (tickets[j].status = "Active"
               /\ fromisoformat(tickets[j].expiryTime).raised)
              => /\ \A t \in 0..MaxTime + 1 :
                      /\ update_ticket_state_raises(tickets[j], t) = "none"
                      /\ update_ticket_state(tickets[j], t) = tickets[j]
                 /\ tickets' = tickets
                 /\ resp'.shown[1].status = "Active" ]_vars

\* At the latest time a view has just shown an Active ticket that has no
\* expiryTime, while the store holds another Active ticket whose expiryTime
\* is text that is not a timestamp.
C21_Witness ==
  /\ now = MaxTime
  /\ resp.route = "ticket"
  /\ resp.at = now
  /\ resp.shown # NoShown
  /\ resp.shown[1].status = "Active"
  /\ resp.shown[1].expiryTime = NoTimestamp
  /\ \E j \in DOMAIN tickets :
       /\ tickets[j].status = "Active"
       /\ tickets[j].expiryTime = NotATimestamp

====
